---- MODULE Spec2Model ----
(***************************************************************************)
(* OPD token allocation engine: capacity evaluation (slotCapacity.ts),     *)
(* allocation decision (allocationEngine.ts) and slot mutation             *)
(* (slotMutator.ts), driven by the token controller.                       *)
(***************************************************************************)
EXTENDS Integers, Sequences, FiniteSets, TLC

VARIABLES slot, result, op, pending

vars == <<slot, result, op, pending>>

(***************************************************************************)
(* Bounds of the model.                                                    *)
(***************************************************************************)
\* token identifiers are 1..MaxId
MaxId == 3
\* slot.capacity.max ranges over 0..MaxCapacity
MaxCapacity == 2
\* emergencyBuffer and priorityBuffer range over 0..MaxBuffer
MaxBuffer == 1
\* how many of the PriorityLevel values (in increasing order) tokens may carry
NumPriorities == 2
\* the longest waitlist a cancel or noShow call is tried on
MaxWaitlist == 3
\* the longest tokens and waitlist sequences built by arbitrary apply calls
MaxApplied == 2
\* how many of the TokenSource values (in SourceOrder) submitted tokens may carry
NumSources == 3
\* the longest waitlist beside which a single decision is taken
MaxDecideWaitlist == 1
\* capacity.max ranges over 0..MaxAdmitCapacity where canAllocateToken is checked
MaxAdmitCapacity == 3
\* the two buffers range over 0..MaxAdmitBuffer where canAllocateToken is checked
MaxAdmitBuffer == 2
\* the most occupants of a slot a single applyAllocationResult call is tried on
MaxOccupants == 3
\* how many decisions may be taken and not yet applied
MaxPending == 2
\* the longest tokens and waitlist sequences unserialized calls may build
MaxRaced == 3

(***************************************************************************)
(* domain/enums.ts                                                         *)
(***************************************************************************)
ONLINE == "ONLINE"
WALK_IN == "WALK_IN"
PRIORITY == "PRIORITY"
FOLLOW_UP == "FOLLOW_UP"
EMERGENCY == "EMERGENCY"

TokenSource == {ONLINE, WALK_IN, PRIORITY, FOLLOW_UP, EMERGENCY}

LOW == 20
MEDIUM == 40
HIGH == 60
VERY_HIGH == 80
EMERGENCY_LEVEL == 100

PriorityLevel == <<LOW, MEDIUM, HIGH, VERY_HIGH, EMERGENCY_LEVEL>>

(***************************************************************************)
(* domain/Token.ts, domain/Slot.ts                                         *)
(***************************************************************************)
Ids == 1..MaxId

Priorities == {PriorityLevel[i] : i \in 1..NumPriorities}

\* one source of each class first, then the second source of the two paired classes
SourceOrder == <<ONLINE, PRIORITY, EMERGENCY, WALK_IN, FOLLOW_UP>>

Sources == {SourceOrder[i] : i \in 1..NumSources}

\* the fields of a Token the services read
TokenOf(ids, sources) == [id : ids, source : sources, priority : Priorities, movable : BOOLEAN]

\* the tokens submitted to the controller
Token == TokenOf(Ids, Sources)

\* stands for null / undefined where the code has no token
NoToken == [id |-> 0, source |-> "NONE", priority |-> 0, movable |-> FALSE]

SlotCapacity == [max : 0..MaxCapacity, emergencyBuffer : 0..MaxBuffer, priorityBuffer : 0..MaxBuffer]

\* store/inMemoryStore.ts createSlot: a new slot has no tokens and no waitlist
createSlot(capacity) == [capacity |-> capacity, tokens |-> <<>>, waitlist |-> <<>>]

(***************************************************************************)
(* services/slotCapacity.ts                                                *)
(***************************************************************************)
getTotalAllocated(s) == Len(s.tokens)

isEmergencySource(token) == token.source = EMERGENCY

isPrioritySource(token) == token.source = PRIORITY \/ token.source = FOLLOW_UP

isGeneralSource(token) == token.source = ONLINE \/ token.source = WALK_IN

getEmergencyCount(s) == Len(SelectSeq(s.tokens, isEmergencySource))

getPriorityCount(s) == Len(SelectSeq(s.tokens, isPrioritySource))

getGeneralCount(s) == Len(SelectSeq(s.tokens, isGeneralSource))

\* mutant: the comparison admits one token too many
hasHardCapacityInclusive(s) == getTotalAllocated(s) <= s.capacity.max

hasHardCapacity(s) == getTotalAllocated(s) < s.capacity.max

canConsumeEmergencyBuffer(s) == getEmergencyCount(s) < s.capacity.emergencyBuffer

canConsumePriorityBuffer(s) == getPriorityCount(s) < s.capacity.priorityBuffer

\* mutant: over-subscribed buffers leave their excess as general capacity
generalCapacityMagnitude(s) ==
  LET reservedCapacity == s.capacity.emergencyBuffer + s.capacity.priorityBuffer
  IN IF reservedCapacity > s.capacity.max
     THEN reservedCapacity - s.capacity.max
     ELSE s.capacity.max - reservedCapacity

generalCapacityOf(s) == s.capacity.max - (s.capacity.emergencyBuffer + s.capacity.priorityBuffer)

\* mutant: a reserved class may not overflow into general capacity
canAllocateNoOverflow(s, token) ==
  IF ~hasHardCapacity(s) THEN FALSE
  ELSE CASE token.source = EMERGENCY -> canConsumeEmergencyBuffer(s)
         [] token.source \in {PRIORITY, FOLLOW_UP} -> canConsumePriorityBuffer(s)
         [] token.source \in {ONLINE, WALK_IN} ->
              getGeneralCount(s) < generalCapacityOf(s)
         [] OTHER -> FALSE

canAllocateToken(s, token) ==
  IF ~hasHardCapacity(s) THEN FALSE
  ELSE CASE token.source = EMERGENCY ->
              canConsumeEmergencyBuffer(s) \/ getGeneralCount(s) < generalCapacityOf(s)
         [] token.source \in {PRIORITY, FOLLOW_UP} ->
              canConsumePriorityBuffer(s) \/ getGeneralCount(s) < generalCapacityOf(s)
         [] token.source \in {ONLINE, WALK_IN} ->
              getGeneralCount(s) < generalCapacityOf(s)
         [] OTHER -> FALSE

(***************************************************************************)
(* services/allocationEngine.ts                                            *)
(***************************************************************************)
\* mutant: the filter forgets to exclude the EMERGENCY source
isEligibleMovableOnly(token) == token.movable = TRUE

isEligible(token) == token.movable = TRUE /\ token.source # EMERGENCY

\* mutant: the comparison lets a later token of equal priority win
RECURSIVE lowestFromLastTie(_, _, _)
lowestFromLastTie(eligibleTokens, i, lowestToken) ==
  IF i > Len(eligibleTokens) THEN lowestToken
  ELSE lowestFromLastTie(eligibleTokens, i + 1,
                         IF eligibleTokens[i].priority <= lowestToken.priority
                         THEN eligibleTokens[i] ELSE lowestToken)

\* the loop of findLowestPriorityMovableToken over eligibleTokens[i..]
RECURSIVE lowestFrom(_, _, _)
lowestFrom(eligibleTokens, i, lowestToken) ==
  IF i > Len(eligibleTokens) THEN lowestToken
  ELSE lowestFrom(eligibleTokens, i + 1,
                  IF eligibleTokens[i].priority < lowestToken.priority
                  THEN eligibleTokens[i] ELSE lowestToken)

findLowestPriorityMovableToken(s) ==
  LET eligibleTokens == SelectSeq(s.tokens, isEligible)
  IN IF Len(eligibleTokens) = 0 THEN NoToken
     ELSE lowestFrom(eligibleTokens, 1, eligibleTokens[1])

AllocationResult(status, allocatedToken, displacedToken) ==
  [status |-> status, allocatedToken |-> allocatedToken, displacedToken |-> displacedToken]

\* mutant: a token of equal priority is allowed to displace
allocateNonStrict(s, token) ==
  IF canAllocateToken(s, token)
  THEN AllocationResult("ALLOCATED", token, NoToken)
  ELSE LET lowestPriorityToken == findLowestPriorityMovableToken(s)
       IN IF lowestPriorityToken # NoToken /\ token.priority >= lowestPriorityToken.priority
          THEN AllocationResult("DISPLACED", token, lowestPriorityToken)
          ELSE IF token.priority >= MEDIUM
               THEN AllocationResult("WAITLISTED", token, NoToken)
               ELSE AllocationResult("REJECTED", NoToken, NoToken)

\* mutant: displacement is tried before direct allocation
allocateDisplaceFirst(s, token) ==
  LET lowestPriorityToken == findLowestPriorityMovableToken(s)
  IN IF lowestPriorityToken # NoToken /\ token.priority > lowestPriorityToken.priority
     THEN AllocationResult("DISPLACED", token, lowestPriorityToken)
     ELSE IF canAllocateToken(s, token)
          THEN AllocationResult("ALLOCATED", token, NoToken)
          ELSE IF token.priority >= MEDIUM
               THEN AllocationResult("WAITLISTED", token, NoToken)
               ELSE AllocationResult("REJECTED", NoToken, NoToken)

\* mutant: the waitlist threshold excludes MEDIUM itself
allocateThresholdStrict(s, token) ==
  IF canAllocateToken(s, token)
  THEN AllocationResult("ALLOCATED", token, NoToken)
  ELSE LET lowestPriorityToken == findLowestPriorityMovableToken(s)
       IN IF lowestPriorityToken # NoToken /\ token.priority > lowestPriorityToken.priority
          THEN AllocationResult("DISPLACED", token, lowestPriorityToken)
          ELSE IF token.priority > MEDIUM
               THEN AllocationResult("WAITLISTED", token, NoToken)
               ELSE AllocationResult("REJECTED", NoToken, NoToken)

\* mutant: the decision remembers the previous call (a token once waitlisted
\* is rejected when it is evaluated again)
allocateWithMemory(s, token) ==
  IF canAllocateToken(s, token)
  THEN AllocationResult("ALLOCATED", token, NoToken)
  ELSE LET lowestPriorityToken == findLowestPriorityMovableToken(s)
       IN IF lowestPriorityToken # NoToken /\ token.priority > lowestPriorityToken.priority
          THEN AllocationResult("DISPLACED", token, lowestPriorityToken)
          ELSE IF token.priority >= MEDIUM /\ result.status # "WAITLISTED"
               THEN AllocationResult("WAITLISTED", token, NoToken)
               ELSE AllocationResult("REJECTED", NoToken, NoToken)

\* mutant: every token that is neither allocated nor displacing is waitlisted
allocateWaitlistAll(s, token) ==
  IF canAllocateToken(s, token)
  THEN AllocationResult("ALLOCATED", token, NoToken)
  ELSE LET lowestPriorityToken == findLowestPriorityMovableToken(s)
       IN IF lowestPriorityToken # NoToken /\ token.priority > lowestPriorityToken.priority
          THEN AllocationResult("DISPLACED", token, lowestPriorityToken)
          ELSE AllocationResult("WAITLISTED", token, NoToken)

allocateTokenToSlot(s, token) ==
  IF canAllocateToken(s, token)
  THEN AllocationResult("ALLOCATED", token, NoToken)
  ELSE LET lowestPriorityToken == findLowestPriorityMovableToken(s)
       IN IF lowestPriorityToken # NoToken /\ token.priority > lowestPriorityToken.priority
          THEN AllocationResult("DISPLACED", token, lowestPriorityToken)
          ELSE IF token.priority >= MEDIUM
               THEN AllocationResult("WAITLISTED", token, NoToken)
               ELSE AllocationResult("REJECTED", NoToken, NoToken)

(***************************************************************************)
(* services/slotMutator.ts                                                 *)
(***************************************************************************)
\* tokens.findIndex((t) => t.id === tokenId), 0 where the code has -1
RECURSIVE findIndexFrom(_, _, _)
findIndexFrom(tokens, tokenId, i) ==
  IF i > Len(tokens) THEN 0
  ELSE IF tokens[i].id = tokenId THEN i
  ELSE findIndexFrom(tokens, tokenId, i + 1)

findIndex(tokens, tokenId) == findIndexFrom(tokens, tokenId, 1)

\* tokens.splice(index, 1): the sequence that is left
splice(tokens, index) ==
  [j \in 1..(Len(tokens) - 1) |-> IF j < index THEN tokens[j] ELSE tokens[j + 1]]

\* mutant: the index is not tested for -1, and splice(-1, 1) removes the last token
removeTokenByIdUnchecked(tokens, tokenId) ==
  LET index == findIndex(tokens, tokenId)
  IN IF index = 0
     THEN (IF Len(tokens) = 0 THEN tokens ELSE splice(tokens, Len(tokens)))
     ELSE splice(tokens, index)

\* the sequence left by removeTokenById (unchanged when the id is absent)
removeTokenById(tokens, tokenId) ==
  LET index == findIndex(tokens, tokenId)
  IN IF index = 0 THEN tokens ELSE splice(tokens, index)

\* mutant: the comparison lets a later entry of equal priority win
RECURSIVE highestFromLastTie(_, _, _)
highestFromLastTie(waitlist, i, highestIndex) ==
  IF i > Len(waitlist) THEN highestIndex
  ELSE highestFromLastTie(waitlist, i + 1,
                          IF waitlist[i].priority >= waitlist[highestIndex].priority
                          THEN i ELSE highestIndex)

\* the loop of findHighestPriorityIndex from index i on
RECURSIVE highestFrom(_, _, _)
highestFrom(waitlist, i, highestIndex) ==
  IF i > Len(waitlist) THEN highestIndex
  ELSE highestFrom(waitlist, i + 1,
                   IF waitlist[i].priority > waitlist[highestIndex].priority
                   THEN i ELSE highestIndex)

\* 0 where the code has -1
findHighestPriorityIndex(waitlist) ==
  IF Len(waitlist) = 0 THEN 0 ELSE highestFrom(waitlist, 2, 1)

\* mutant: the promoted token is pushed to tokens but left on the waitlist
promoteWithoutSplice(s) ==
  LET highestIndex == findHighestPriorityIndex(s.waitlist)
  IN IF highestIndex = 0 THEN s
     ELSE [s EXCEPT !.tokens = Append(s.tokens, s.waitlist[highestIndex])]

\* mutant: promotion asks the capacity evaluator about the promoted token
promoteIfAdmissible(s) ==
  LET highestIndex == findHighestPriorityIndex(s.waitlist)
  IN IF highestIndex = 0 \/ ~canAllocateToken(s, s.waitlist[highestIndex]) THEN s
     ELSE [s EXCEPT !.waitlist = splice(s.waitlist, highestIndex),
                    !.tokens = Append(s.tokens, s.waitlist[highestIndex])]

promoteFromWaitlist(s) ==
  LET highestIndex == findHighestPriorityIndex(s.waitlist)
  IN IF highestIndex = 0 THEN s
     ELSE [s EXCEPT !.waitlist = splice(s.waitlist, highestIndex),
                    !.tokens = Append(s.tokens, s.waitlist[highestIndex])]

\* mutant: DISPLACED forgets to remove the displaced token from tokens
applyWithoutRemoval(s, r) ==
  CASE r.status = "ALLOCATED" ->
         IF r.allocatedToken # NoToken
         THEN [s EXCEPT !.tokens = Append(s.tokens, r.allocatedToken)]
         ELSE s
    [] r.status = "DISPLACED" ->
         IF r.displacedToken # NoToken /\ r.allocatedToken # NoToken
         THEN [s EXCEPT !.tokens = Append(s.tokens, r.allocatedToken),
                        !.waitlist = Append(s.waitlist, r.displacedToken)]
         ELSE s
    [] r.status = "WAITLISTED" ->
         IF r.allocatedToken # NoToken
         THEN [s EXCEPT !.waitlist = Append(s.waitlist, r.allocatedToken)]
         ELSE s
    [] OTHER -> s

\* mutant: ALLOCATED and WAITLISTED insert at the front instead of pushing
applyUnshift(s, r) ==
  CASE r.status = "ALLOCATED" ->
         IF r.allocatedToken # NoToken
         THEN [s EXCEPT !.tokens = <<r.allocatedToken>> \o s.tokens]
         ELSE s
    [] r.status = "DISPLACED" ->
         IF r.displacedToken # NoToken /\ r.allocatedToken # NoToken
         THEN [s EXCEPT !.tokens = Append(removeTokenById(s.tokens, r.displacedToken.id),
                                          r.allocatedToken),
                        !.waitlist = Append(s.waitlist, r.displacedToken)]
         ELSE s
    [] r.status = "WAITLISTED" ->
         IF r.allocatedToken # NoToken
         THEN [s EXCEPT !.waitlist = <<r.allocatedToken>> \o s.waitlist]
         ELSE s
    [] OTHER -> s

\* mutant: DISPLACED puts the new token in the displaced occupant's place
applyReplaceInPlace(s, r) ==
  CASE r.status = "ALLOCATED" ->
         IF r.allocatedToken # NoToken
         THEN [s EXCEPT !.tokens = Append(s.tokens, r.allocatedToken)]
         ELSE s
    [] r.status = "DISPLACED" ->
         IF r.displacedToken # NoToken /\ r.allocatedToken # NoToken
         THEN LET index == findIndex(s.tokens, r.displacedToken.id)
              IN [s EXCEPT !.tokens = IF index = 0 THEN Append(s.tokens, r.allocatedToken)
                                      ELSE [s.tokens EXCEPT ![index] = r.allocatedToken],
                           !.waitlist = Append(s.waitlist, r.displacedToken)]
         ELSE s
    [] r.status = "WAITLISTED" ->
         IF r.allocatedToken # NoToken
         THEN [s EXCEPT !.waitlist = Append(s.waitlist, r.allocatedToken)]
         ELSE s
    [] OTHER -> s

\* mutant: ALLOCATED skips a token whose identifier is already an occupant's
applyIdempotent(s, r) ==
  CASE r.status = "ALLOCATED" ->
         IF r.allocatedToken # NoToken /\ findIndex(s.tokens, r.allocatedToken.id) = 0
         THEN [s EXCEPT !.tokens = Append(s.tokens, r.allocatedToken)]
         ELSE s
    [] r.status = "DISPLACED" ->
         IF r.displacedToken # NoToken /\ r.allocatedToken # NoToken
         THEN [s EXCEPT !.tokens = Append(removeTokenById(s.tokens, r.displacedToken.id),
                                          r.allocatedToken),
                        !.waitlist = Append(s.waitlist, r.displacedToken)]
         ELSE s
    [] r.status = "WAITLISTED" ->
         IF r.allocatedToken # NoToken
         THEN [s EXCEPT !.waitlist = Append(s.waitlist, r.allocatedToken)]
         ELSE s
    [] OTHER -> s

\* mutant: DISPLACED tests each token only where it uses it
applyPartially(s, r) ==
  CASE r.status = "ALLOCATED" ->
         IF r.allocatedToken # NoToken
         THEN [s EXCEPT !.tokens = Append(s.tokens, r.allocatedToken)]
         ELSE s
    [] r.status = "DISPLACED" ->
         LET removed == IF r.displacedToken # NoToken
                        THEN [s EXCEPT !.tokens = removeTokenById(s.tokens, r.displacedToken.id),
                                       !.waitlist = Append(s.waitlist, r.displacedToken)]
                        ELSE s
         IN IF r.allocatedToken # NoToken
            THEN [removed EXCEPT !.tokens = Append(removed.tokens, r.allocatedToken)]
            ELSE removed
    [] r.status = "WAITLISTED" ->
         IF r.allocatedToken # NoToken
         THEN [s EXCEPT !.waitlist = Append(s.waitlist, r.allocatedToken)]
         ELSE s
    [] OTHER -> s

\* mutant: DISPLACED drops the displaced token instead of waitlisting it
applyDropDisplaced(s, r) ==
  CASE r.status = "ALLOCATED" ->
         IF r.allocatedToken # NoToken
         THEN [s EXCEPT !.tokens = Append(s.tokens, r.allocatedToken)]
         ELSE s
    [] r.status = "DISPLACED" ->
         IF r.displacedToken # NoToken /\ r.allocatedToken # NoToken
         THEN [s EXCEPT !.tokens = Append(removeTokenById(s.tokens, r.displacedToken.id),
                                          r.allocatedToken)]
         ELSE s
    [] r.status = "WAITLISTED" ->
         IF r.allocatedToken # NoToken
         THEN [s EXCEPT !.waitlist = Append(s.waitlist, r.allocatedToken)]
         ELSE s
    [] OTHER -> s

applyAllocationResult(s, r) ==
  CASE r.status = "ALLOCATED" ->
         IF r.allocatedToken # NoToken
         THEN [s EXCEPT !.tokens = Append(s.tokens, r.allocatedToken)]
         ELSE s
    [] r.status = "DISPLACED" ->
         IF r.displacedToken # NoToken /\ r.allocatedToken # NoToken
         THEN [s EXCEPT !.tokens = Append(removeTokenById(s.tokens, r.displacedToken.id),
                                          r.allocatedToken),
                        !.waitlist = Append(s.waitlist, r.displacedToken)]
         ELSE s
    [] r.status = "WAITLISTED" ->
         IF r.allocatedToken # NoToken
         THEN [s EXCEPT !.waitlist = Append(s.waitlist, r.allocatedToken)]
         ELSE s
    [] OTHER -> s

\* mutant: promotion does not depend on a token having been removed
cancelAlwaysPromote(s, tokenId) ==
  promoteFromWaitlist([s EXCEPT !.tokens = removeTokenById(s.tokens, tokenId)])

\* mutant: a no-show frees the place without promoting from the waitlist
markNoShowWithoutPromotion(s, tokenId) ==
  [s EXCEPT !.tokens = removeTokenById(s.tokens, tokenId)]

cancelToken(s, tokenId) ==
  LET removed == findIndex(s.tokens, tokenId) # 0
      afterRemove == [s EXCEPT !.tokens = removeTokenById(s.tokens, tokenId)]
  IN IF removed THEN promoteFromWaitlist(afterRemove) ELSE afterRemove

markNoShow(s, tokenId) == cancelToken(s, tokenId)

(***************************************************************************)
(* Helpers over a slot                                                     *)
(***************************************************************************)
idsOf(tokens) == {tokens[i].id : i \in 1..Len(tokens)}

inSlot(s, tokenId) == tokenId \in idsOf(s.tokens) \/ tokenId \in idsOf(s.waitlist)

NoResult == AllocationResult("NONE", NoToken, NoToken)

\* the last call: its kind, the identifier it names and the token it submits
Call(kind, id, token) == [kind |-> kind, id |-> id, token |-> token]

NoOp == Call("init", 0, NoToken)

\* the decisions taken and not yet applied, each with the token it is for
NoPending == <<>>

(***************************************************************************)
(* The serialized control flow of the token controller on one slot:        *)
(* every admission is decide immediately followed by apply.                *)
(***************************************************************************)
Init ==
  /\ slot \in {createSlot(c) : c \in SlotCapacity}
  /\ result = NoResult
  /\ op = NoOp
  /\ pending = NoPending

\* mutant: another request's cancel runs between the decision and its apply
AdmitInterleaved(token) ==
  /\ ~inSlot(slot, token.id)
  /\ result' = allocateTokenToSlot(slot, token)
  /\ \E tokenId \in Ids : slot' = applyAllocationResult(cancelToken(slot, tokenId), result')
  /\ op' = Call("admit", token.id, token)
  /\ pending' = pending

\* createTokenHandler: allocateTokenToSlot then applyAllocationResult
Admit(token) ==
  /\ ~inSlot(slot, token.id)
  /\ result' = allocateTokenToSlot(slot, token)
  /\ slot' = applyAllocationResult(slot, result')
  /\ op' = Call("admit", token.id, token)
  /\ pending' = pending

\* cancelTokenHandler
Cancel(tokenId) ==
  /\ slot' = cancelToken(slot, tokenId)
  /\ result' = NoResult
  /\ op' = Call("cancel", tokenId, NoToken)
  /\ pending' = pending

\* markNoShowHandler
NoShow(tokenId) ==
  /\ slot' = markNoShow(slot, tokenId)
  /\ result' = NoResult
  /\ op' = Call("noShow", tokenId, NoToken)
  /\ pending' = pending

Next ==
  \/ \E token \in Token : Admit(token)
  \/ \E tokenId \in Ids : Cancel(tokenId)
  \/ \E tokenId \in Ids : NoShow(tokenId)

Spec == Init /\ [][Next]_vars

(***************************************************************************)
(* The cancel and no-show endpoints with what they answer: the handler     *)
(* looks the identifier up in tokens and waitlist (findSlotByTokenId),     *)
(* answers 404 when it is in neither, and otherwise calls the mutator and  *)
(* answers 200.                                                            *)
(***************************************************************************)
HTTP_OK == "200"

HTTP_NOT_FOUND == "404"

\* the answer of a cancel or no-show request, in the place of the decision
Response(status) == AllocationResult(status, NoToken, NoToken)

\* cancelTokenHandler
CancelRequest(tokenId) ==
  /\ IF inSlot(slot, tokenId)
     THEN slot' = cancelToken(slot, tokenId) /\ result' = Response(HTTP_OK)
     ELSE slot' = slot /\ result' = Response(HTTP_NOT_FOUND)
  /\ op' = Call("cancel", tokenId, NoToken)
  /\ pending' = pending

\* markNoShowHandler
NoShowRequest(tokenId) ==
  /\ IF inSlot(slot, tokenId)
     THEN slot' = markNoShow(slot, tokenId) /\ result' = Response(HTTP_OK)
     ELSE slot' = slot /\ result' = Response(HTTP_NOT_FOUND)
  /\ op' = Call("noShow", tokenId, NoToken)
  /\ pending' = pending

NextHandlers ==
  \/ \E token \in Token : Admit(token)
  \/ \E tokenId \in Ids : CancelRequest(tokenId)
  \/ \E tokenId \in Ids : NoShowRequest(tokenId)

SpecHandlers == Init /\ [][NextHandlers]_vars

(***************************************************************************)
(* The decision engine as a function: one call of allocateTokenToSlot on   *)
(* any slot that respects tokens.length <= max, with any token.            *)
(***************************************************************************)
AllPriorities == {PriorityLevel[i] : i \in 1..Len(PriorityLevel)}

TokenKind == [source : TokenSource, priority : AllPriorities, movable : BOOLEAN]

\* the kinds that differ in priority only
PriorityKind == {k \in TokenKind : k.source = ONLINE /\ k.movable = TRUE}

\* the token of kind k with identifier id
tokenOfKind(id, k) == [id |-> id, source |-> k.source, priority |-> k.priority, movable |-> k.movable]

\* the sequences of n tokens of any kinds, identified first + 1 .. first + n
TokenSeqs(first, n, kinds) ==
  {[i \in 1..n |-> tokenOfKind(first + i, f[i])] : f \in [1..n -> kinds]}

\* the waitlists a decision is taken beside: empty, or one MEDIUM token
\* (allocateTokenToSlot never reads slot.waitlist)
DecideWaitlists(first) ==
  UNION {TokenSeqs(first, w, {k \in PriorityKind : k.priority = MEDIUM}) : w \in 0..MaxDecideWaitlist}

InitDecide ==
  /\ \E c \in SlotCapacity :
       \E n \in 0..c.max :
         \E ts \in TokenSeqs(0, n, TokenKind) :
           \E wl \in DecideWaitlists(n + 1) :
             slot = [capacity |-> c, tokens |-> ts, waitlist |-> wl]
  /\ result = NoResult
  /\ op = NoOp
  /\ pending = NoPending

\* a source string outside the TokenSource enum (the controller casts
\* req.body.source without validating it)
UNKNOWN == "UNKNOWN"

\* the kinds of the token handed to allocateTokenToSlot
IncomingKind == [source : TokenSource \cup {UNKNOWN}, priority : AllPriorities, movable : BOOLEAN]

\* mutant: the decision is applied to the slot while it is taken
DecideAndApply(token) ==
  /\ result' = allocateTokenToSlot(slot, token)
  /\ slot' = applyAllocationResult(slot, result')
  /\ op' = Call("decide", token.id, token)
  /\ pending' = pending

\* allocateTokenToSlot(slot, token): the slot is only read
Decide(token) ==
  /\ result' = allocateTokenToSlot(slot, token)
  /\ slot' = slot
  /\ op' = Call("decide", token.id, token)
  /\ pending' = pending

\* allocateTokenToSlot evaluated a second time on the same slot and token
Redecide ==
  /\ op.kind = "decide"
  /\ result' = allocateTokenToSlot(slot, op.token)
  /\ slot' = slot
  /\ op' = Call("redecide", op.id, op.token)
  /\ pending' = pending

NextDecide ==
  \/ /\ op.kind = "init"
     /\ \E k \in IncomingKind : Decide(tokenOfKind(Len(slot.tokens) + 1, k))
  \/ Redecide

SpecDecide == InitDecide /\ [][NextDecide]_vars

(***************************************************************************)
(* The capacity evaluator as a function: canAllocateToken, through one     *)
(* call of allocateTokenToSlot, on slots of wider capacity configurations  *)
(* (over-subscribed buffers included).  canAllocateToken reads only the    *)
(* sources of the occupants, so these differ in source; none is movable.   *)
(***************************************************************************)
AdmitCapacity ==
  [max : 0..MaxAdmitCapacity, emergencyBuffer : 0..MaxAdmitBuffer, priorityBuffer : 0..MaxAdmitBuffer]

SourceKind == [source : TokenSource \cup {UNKNOWN}, priority : {LOW}, movable : {FALSE}]

AdmitKind == [source : TokenSource \cup {UNKNOWN}, priority : Priorities, movable : {FALSE}]

InitCapacity ==
  /\ \E c \in AdmitCapacity :
       \E n \in 0..c.max :
         \E ts \in TokenSeqs(0, n, SourceKind) :
           slot = [capacity |-> c, tokens |-> ts, waitlist |-> <<>>]
  /\ result = NoResult
  /\ op = NoOp
  /\ pending = NoPending

NextCapacity ==
  /\ op.kind = "init"
  /\ \E k \in AdmitKind : Decide(tokenOfKind(Len(slot.tokens) + 1, k))

SpecCapacity == InitCapacity /\ [][NextCapacity]_vars

(***************************************************************************)
(* The mutator's cancelToken / markNoShow as functions: one call on a slot *)
(* with any occupants and any waitlist.  The calls read only id and        *)
(* priority, so the tokens differ in these; occupants are identified       *)
(* 1..n and the waitlist n+1..n+w, in order.                               *)
(***************************************************************************)
InitCancel ==
  /\ \E c \in SlotCapacity :
       \E n \in 0..c.max :
         \E w \in 0..MaxWaitlist :
           \E ts \in TokenSeqs(0, n, PriorityKind) :
             \E wl \in TokenSeqs(n, w, PriorityKind) :
               slot = [capacity |-> c, tokens |-> ts, waitlist |-> wl]
  /\ result = NoResult
  /\ op = NoOp
  /\ pending = NoPending

\* the identifiers in the slot and one that is not
CallIds == 1..(Len(slot.tokens) + Len(slot.waitlist) + 1)

NextCancel ==
  /\ op.kind = "init"
  /\ \/ \E tokenId \in CallIds : Cancel(tokenId)
     \/ \E tokenId \in CallIds : NoShow(tokenId)

SpecCancel == InitCancel /\ [][NextCancel]_vars

(***************************************************************************)
(* The mutator driven directly: any sequence of applyAllocationResult (of  *)
(* any decision, not only one allocateTokenToSlot returned), cancelToken   *)
(* and markNoShow on a slot that starts empty.                             *)
(***************************************************************************)
AppliedKind == {k \in PriorityKind : k.priority \in Priorities}

AppliedToken == {tokenOfKind(id, k) : id \in 1..MaxApplied, k \in AppliedKind}

\* the results allocateTokenToSlot can return over the tokens, and the
\* results that lack a token their status needs
DecisionsOver(tokens) ==
  {AllocationResult("ALLOCATED", t, NoToken) : t \in tokens \cup {NoToken}}
    \cup {AllocationResult("WAITLISTED", t, NoToken) : t \in tokens \cup {NoToken}}
    \cup {AllocationResult("DISPLACED", t, d) : t \in tokens \cup {NoToken}, d \in tokens \cup {NoToken}}
    \cup {AllocationResult("REJECTED", NoToken, NoToken)}

Decision == DecisionsOver(AppliedToken)

\* applyAllocationResult(slot, decision)
Apply(decision) ==
  /\ slot' = applyAllocationResult(slot, decision)
  /\ result' = decision
  /\ op' = Call("apply", decision.allocatedToken.id, decision.allocatedToken)
  /\ pending' = pending

NextApply ==
  \/ \E decision \in Decision :
       /\ Apply(decision)
       /\ Len(slot'.tokens) <= MaxApplied
       /\ Len(slot'.waitlist) <= MaxApplied
  \/ \E tokenId \in 1..MaxApplied : Cancel(tokenId)
  \/ \E tokenId \in 1..MaxApplied : NoShow(tokenId)

SpecApply == Init /\ [][NextApply]_vars

(***************************************************************************)
(* applyAllocationResult as a function: one call, with any decision, on a  *)
(* slot of up to MaxOccupants occupants (identified 1..n) and a waitlist   *)
(* (n+1..n+w) that hold no identifier twice.  The call reads only the      *)
(* identifiers, so the tokens differ in id and priority.                   *)
(***************************************************************************)
\* the capacity of the seeded slots and of the tests' createTestSlot
defaultCapacity == [max |-> 5, emergencyBuffer |-> 1, priorityBuffer |-> 1]

InitApplyOnce ==
  /\ \E n \in 0..MaxOccupants :
       \E w \in 0..MaxApplied :
         \E ts \in TokenSeqs(0, n, AppliedKind) :
           \E wl \in TokenSeqs(n, w, AppliedKind) :
             slot = [capacity |-> defaultCapacity, tokens |-> ts, waitlist |-> wl]
  /\ result = NoResult
  /\ op = NoOp
  /\ pending = NoPending

\* the tokens a decision may carry: any in the slot, stale copies of them,
\* and one whose identifier the slot cannot hold
OnceToken == {tokenOfKind(id, k) : id \in 1..(MaxOccupants + MaxApplied + 1), k \in AppliedKind}

NextApplyOnce ==
  /\ op.kind = "init"
  /\ \E decision \in DecisionsOver(OnceToken) : Apply(decision)

SpecApplyOnce == InitApplyOnce /\ [][NextApplyOnce]_vars

(***************************************************************************)
(* A displacement followed by the cancel of the token it let in: on a slot *)
(* as in InitApplyOnce, apply a DISPLACED decision that names an occupant  *)
(* and a token new to the slot, then cancel (or noShow) that new token.    *)
(***************************************************************************)
\* an identifier the slot does not hold
freshId(s) == Len(s.tokens) + Len(s.waitlist) + 1

FreshToken(s) == {tokenOfKind(freshId(s), k) : k \in AppliedKind}

NextRoundTrip ==
  \/ /\ op.kind = "init"
     /\ \E i \in 1..Len(slot.tokens) :
          \E token \in FreshToken(slot) :
            Apply(AllocationResult("DISPLACED", token, slot.tokens[i]))
  \/ /\ op.kind = "apply"
     /\ Cancel(op.id)
  \/ /\ op.kind = "apply"
     /\ NoShow(op.id)

SpecRoundTrip == InitApplyOnce /\ [][NextRoundTrip]_vars

(***************************************************************************)
(* The core driven by a caller that does not serialize: decide and apply   *)
(* are separate calls on one slot, up to MaxPending decisions are held     *)
(* before they are applied, in any order, and cancel / noShow calls may    *)
(* fall in between.                                                        *)
(***************************************************************************)
\* the tokens of the unserialized caller: general, of any priority and movability
RaceToken == TokenOf(Ids, {ONLINE})

pendingIds == {pending[i].token.id : i \in 1..Len(pending)}

\* allocateTokenToSlot(slot, token), its decision held for a later apply
DecideRequest(token) ==
  /\ Len(pending) < MaxPending
  /\ ~inSlot(slot, token.id)
  /\ token.id \notin pendingIds
  /\ result' = allocateTokenToSlot(slot, token)
  /\ pending' = Append(pending, [token |-> token, result |-> result'])
  /\ slot' = slot
  /\ op' = Call("decide", token.id, token)

\* applyAllocationResult(slot, decision) of the i-th decision held
ApplyRequest(i) ==
  /\ slot' = applyAllocationResult(slot, pending[i].result)
  /\ result' = pending[i].result
  /\ pending' = SubSeq(pending, 1, i - 1) \o SubSeq(pending, i + 1, Len(pending))
  /\ op' = Call("apply", pending[i].token.id, pending[i].token)

NextRace ==
  \/ \E token \in RaceToken : DecideRequest(token)
  \/ \E i \in 1..Len(pending) :
       /\ ApplyRequest(i)
       /\ Len(slot'.tokens) <= MaxRaced
       /\ Len(slot'.waitlist) <= MaxRaced
  \/ \E tokenId \in Ids : Cancel(tokenId)
  \/ \E tokenId \in Ids : NoShow(tokenId)

SpecRace == Init /\ [][NextRace]_vars

(***************************************************************************)
(* Properties of the serialized control flow (Spec)                        *)
(***************************************************************************)
noDuplicateIds(tokens) ==
  \A i, j \in 1..Len(tokens) : tokens[i].id = tokens[j].id => i = j

isAdmission == op.kind = "admit"

isRemoval == op.kind \in {"cancel", "noShow"}

\* C1: in every state reached from an empty slot by serialized admissions,
\* cancel and noShow, the number of occupants is at most capacity.max
HardCapacityInvariant == getTotalAllocated(slot) <= slot.capacity.max

\* C1 witness: an admission was turned away from, or displaced into, a full slot
HardCapacityWitness ==
  /\ isAdmission
  /\ result.status \in {"DISPLACED", "WAITLISTED", "REJECTED"}
  /\ slot.capacity.max > 0
  /\ getTotalAllocated(slot) = slot.capacity.max

\* C2: with every admitted token id fresh in the slot, occupants holds no
\* identifier twice and no identifier is in both occupants and waitlist
IdentifierUniqueness ==
  /\ noDuplicateIds(slot.tokens)
  /\ idsOf(slot.tokens) \cap idsOf(slot.waitlist) = {}

\* C2 witness: a displacement has just moved an occupant to the waitlist
IdentifierUniquenessWitness ==
  /\ isAdmission
  /\ result.status = "DISPLACED"
  /\ Len(slot.tokens) >= 2
  /\ result.displacedToken.id \in idsOf(slot.waitlist)

undisplaceable(token) == token.source = EMERGENCY \/ token.movable = FALSE

onlyEmergencyOccupants(s) ==
  \A i \in 1..Len(s.tokens) : s.tokens[i].source = EMERGENCY

\* C5 (step part): an EMERGENCY or non-movable occupant leaves occupants only
\* by a cancel or noShow that names its identifier
UndisplaceableLeaveOnlyByRemoval ==
  \A i \in 1..Len(slot.tokens) :
    (undisplaceable(slot.tokens[i]) /\ slot.tokens[i] \notin {slot'.tokens[j] : j \in 1..Len(slot'.tokens)})
      => (op'.kind \in {"cancel", "noShow"} /\ op'.id = slot.tokens[i].id)

\* C5 (state part): a slot whose occupants are all EMERGENCY never yields
\* DISPLACED; a token it does not admit is WAITLISTED from MEDIUM on, else REJECTED
EmergencyOnlyNeverDisplaced ==
  onlyEmergencyOccupants(slot) =>
    \A token \in Token :
      LET r == allocateTokenToSlot(slot, token)
      IN /\ r.status # "DISPLACED"
         /\ ~canAllocateToken(slot, token) =>
              r.status = (IF token.priority >= MEDIUM THEN "WAITLISTED" ELSE "REJECTED")

max0(n) == IF n < 0 THEN 0 ELSE n

\* C7 (as claimed): the ONLINE/WALK_IN occupants never number more than
\* max(0, max - emergencyBuffer - priorityBuffer)
GeneralNeverConsumesBuffer == getGeneralCount(slot) <= max0(generalCapacityOf(slot))

\* C8 (as claimed): with emergencyBuffer + priorityBuffer <= max, an EMERGENCY
\* token is ALLOCATED while emergency occupants are fewer than emergencyBuffer,
\* and a PRIORITY/FOLLOW_UP token while priority occupants are fewer than priorityBuffer
ReservationsProtectUrgent ==
  slot.capacity.emergencyBuffer + slot.capacity.priorityBuffer <= slot.capacity.max =>
    /\ getEmergencyCount(slot) < slot.capacity.emergencyBuffer =>
         \A token \in Token :
           token.source = EMERGENCY => allocateTokenToSlot(slot, token).status = "ALLOCATED"
    /\ getPriorityCount(slot) < slot.capacity.priorityBuffer =>
         \A token \in Token :
           token.source \in {PRIORITY, FOLLOW_UP} => allocateTokenToSlot(slot, token).status = "ALLOCATED"

(***************************************************************************)
(* Properties of the decision engine (SpecDecide)                          *)
(***************************************************************************)
decided == op.kind = "decide"

occupants == {slot.tokens[i] : i \in 1..Len(slot.tokens)}

\* C4: whenever decide returns DISPLACED, the displaced token is a current
\* occupant, movable, not of source EMERGENCY, and of priority strictly below
\* the incoming token's
DisplacementSafety ==
  (decided /\ result.status = "DISPLACED") =>
    /\ result.displacedToken \in occupants
    /\ result.displacedToken.movable = TRUE
    /\ result.displacedToken.source # EMERGENCY
    /\ result.displacedToken.priority < op.token.priority

\* C4 witness: a displacement was decided in a slot that also holds a movable
\* EMERGENCY occupant of lower priority than the displaced one
DisplacementSafetyWitness ==
  /\ decided
  /\ result.status = "DISPLACED"
  /\ \E t \in occupants : t.source = EMERGENCY /\ t.movable = TRUE /\ t.priority < result.displacedToken.priority

\* C9: decide returns ALLOCATED, carrying the incoming token, exactly when
\* canAllocateToken holds of the slot and the token
DirectAllocationFirst ==
  decided =>
    /\ canAllocateToken(slot, op.token) <=> result.status = "ALLOCATED"
    /\ result.status = "ALLOCATED" =>
         (result.allocatedToken = op.token /\ result.displacedToken = NoToken)

\* C9 witness: a token that could also have displaced an occupant was allocated directly
DirectAllocationWitness ==
  /\ decided
  /\ result.status = "ALLOCATED"
  /\ \E t \in occupants : isEligible(t) /\ t.priority < op.token.priority

eligibleIndexes == {i \in 1..Len(slot.tokens) : slot.tokens[i].movable = TRUE /\ slot.tokens[i].source # EMERGENCY}

\* C10: the displacement candidate is the first, in occupants order, of the
\* movable non-EMERGENCY occupants of minimum priority; there is none exactly
\* when no occupant is movable and non-EMERGENCY
CandidateSelection ==
  LET candidate == findLowestPriorityMovableToken(slot)
  IN /\ candidate = NoToken <=> eligibleIndexes = {}
     /\ candidate # NoToken =>
          \E i \in eligibleIndexes :
            /\ candidate = slot.tokens[i]
            /\ \A j \in eligibleIndexes : slot.tokens[j].priority >= slot.tokens[i].priority
            /\ \A j \in eligibleIndexes : j < i => slot.tokens[j].priority > slot.tokens[i].priority

\* C10 witness: two candidates tie on the minimum priority and the
\* displacement decided takes the first
CandidateSelectionWitness ==
  /\ decided
  /\ result.status = "DISPLACED"
  /\ Len(slot.tokens) = 2
  /\ eligibleIndexes = {1, 2}
  /\ slot.tokens[1].priority = slot.tokens[2].priority
  /\ result.displacedToken = slot.tokens[1]

canDisplace(s, token) ==
  LET candidate == findLowestPriorityMovableToken(s)
  IN candidate # NoToken /\ token.priority > candidate.priority

\* C11: when canAllocateToken is false, decide returns DISPLACED, carrying the
\* incoming token and the candidate, exactly when a displacement candidate
\* exists and the incoming priority is strictly above the candidate's; an
\* incoming token of the candidate's own priority never displaces it
StrictPriorityDisplacement ==
  (decided /\ ~canAllocateToken(slot, op.token)) =>
    LET candidate == findLowestPriorityMovableToken(slot)
    IN /\ result.status = "DISPLACED" <=>
            (eligibleIndexes # {} /\ op.token.priority > candidate.priority)
       /\ result.status = "DISPLACED" =>
            (result.allocatedToken = op.token /\ result.displacedToken = candidate)
       /\ (eligibleIndexes # {} /\ op.token.priority = candidate.priority) =>
            result.status # "DISPLACED"

\* C11 witness: an incoming token of exactly the candidate's priority was
\* waitlisted at a full slot instead of displacing it
StrictPriorityWitness ==
  /\ decided
  /\ result.status = "WAITLISTED"
  /\ Len(slot.tokens) = slot.capacity.max
  /\ eligibleIndexes # {}
  /\ op.token.priority = findLowestPriorityMovableToken(slot).priority

\* C12: when the token can neither be allocated nor displace, decide returns
\* WAITLISTED with the token if its priority is at least MEDIUM (40), else
\* REJECTED; a REJECTED decision carries no token
WaitlistThreshold ==
  /\ (decided /\ ~canAllocateToken(slot, op.token) /\ ~canDisplace(slot, op.token)) =>
       result = (IF op.token.priority >= 40
                 THEN AllocationResult("WAITLISTED", op.token, NoToken)
                 ELSE AllocationResult("REJECTED", NoToken, NoToken))
  /\ (decided /\ result.status = "REJECTED") =>
       (result.allocatedToken = NoToken /\ result.displacedToken = NoToken)

\* C12 witness: a token of priority exactly MEDIUM was waitlisted at a full
\* slot whose occupants it cannot displace
WaitlistThresholdWitness ==
  /\ decided
  /\ op.token.priority = MEDIUM
  /\ result.status = "WAITLISTED"
  /\ Len(slot.tokens) = slot.capacity.max
  /\ Len(slot.tokens) >= 1

decidedTwice == op.kind = "redecide"

\* the decision has one of the four kinds and the fields of that kind
DecisionTotal ==
  (decided \/ decidedTwice) =>
    \/ result = AllocationResult("ALLOCATED", op.token, NoToken)
    \/ /\ result.status = "DISPLACED"
       /\ result.allocatedToken = op.token
       /\ result.displacedToken \in occupants
    \/ result = AllocationResult("WAITLISTED", op.token, NoToken)
    \/ result = AllocationResult("REJECTED", NoToken, NoToken)

\* a second evaluation on the same slot and token returns the first decision
DecisionRepeats == op'.kind = "redecide" => result' = result

UnknownSourceInadmissible ==
  (decided /\ op.token.source \notin TokenSource) =>
    /\ ~canAllocateToken(slot, op.token)
    /\ result.status = (IF op.token.priority >= MEDIUM THEN "WAITLISTED" ELSE "REJECTED")

(***************************************************************************)
(* Properties of the capacity evaluator (SpecCapacity)                     *)
(***************************************************************************)
\* how many occupants have a source in the set
countOf(s, sources) == Cardinality({i \in 1..Len(s.tokens) : s.tokens[i].source \in sources})

\* C15: for any slot and token of any source, canAllocateToken true implies
\* fewer occupants than max; a slot at max occupancy admits nothing, an
\* EMERGENCY token with an unused emergency buffer included
CapacityMonotonicity ==
  decided =>
    /\ canAllocateToken(slot, op.token) => Len(slot.tokens) < slot.capacity.max
    /\ Len(slot.tokens) >= slot.capacity.max =>
         (~canAllocateToken(slot, op.token) /\ result.status # "ALLOCATED")

\* C15 witness: an EMERGENCY token was not allocated to a slot at max
\* occupancy whose emergency buffer is unused
CapacityMonotonicityWitness ==
  /\ decided
  /\ op.token.source = EMERGENCY
  /\ Len(slot.tokens) = slot.capacity.max
  /\ Len(slot.tokens) >= 2
  /\ countOf(slot, {EMERGENCY}) = 0
  /\ slot.capacity.emergencyBuffer >= 1
  /\ result.status # "ALLOCATED"

\* the admission law as the claim states it
admissionLaw(s, token) ==
  LET generalCapacity == s.capacity.max - s.capacity.emergencyBuffer - s.capacity.priorityBuffer
      generalCount == countOf(s, {ONLINE, WALK_IN})
  IN /\ Len(s.tokens) < s.capacity.max
     /\ \/ /\ token.source = EMERGENCY
           /\ \/ countOf(s, {EMERGENCY}) < s.capacity.emergencyBuffer
              \/ generalCount < generalCapacity
        \/ /\ token.source \in {PRIORITY, FOLLOW_UP}
           /\ \/ countOf(s, {PRIORITY, FOLLOW_UP}) < s.capacity.priorityBuffer
              \/ generalCount < generalCapacity
        \/ /\ token.source \in {ONLINE, WALK_IN}
           /\ generalCount < generalCapacity

\* C16: for a token of one of the five sources, canAllocateToken is true
\* exactly when occupants < max and: EMERGENCY, emergencyCount < emergencyBuffer
\* or generalCount < generalCapacity; PRIORITY/FOLLOW_UP, priorityCount <
\* priorityBuffer or generalCount < generalCapacity; ONLINE/WALK_IN,
\* generalCount < generalCapacity
AdmissionOverflowLaw ==
  (decided /\ op.token.source \in TokenSource) =>
    (canAllocateToken(slot, op.token) <=> admissionLaw(slot, op.token))

\* C16 witness: an EMERGENCY token whose buffer is exhausted was allocated
\* into idle general capacity
AdmissionOverflowWitness ==
  /\ decided
  /\ op.token.source = EMERGENCY
  /\ slot.capacity.emergencyBuffer >= 1
  /\ countOf(slot, {EMERGENCY}) >= slot.capacity.emergencyBuffer
  /\ countOf(slot, {ONLINE, WALK_IN}) >= 1
  /\ result.status = "ALLOCATED"

overSubscribed(s) == s.capacity.emergencyBuffer + s.capacity.priorityBuffer > s.capacity.max

\* C17: with emergencyBuffer + priorityBuffer > max, decide still returns one
\* of the four results, no ONLINE/WALK_IN token is admitted, and an EMERGENCY
\* or PRIORITY/FOLLOW_UP token is admitted exactly when occupants < max and
\* its own buffer has room
OverSubscribedTolerated ==
  (decided /\ overSubscribed(slot)) =>
    /\ result.status \in {"ALLOCATED", "DISPLACED", "WAITLISTED", "REJECTED"}
    /\ op.token.source \in {ONLINE, WALK_IN} => ~canAllocateToken(slot, op.token)
    /\ op.token.source = EMERGENCY =>
         (canAllocateToken(slot, op.token) <=>
            (Len(slot.tokens) < slot.capacity.max
               /\ countOf(slot, {EMERGENCY}) < slot.capacity.emergencyBuffer))
    /\ op.token.source \in {PRIORITY, FOLLOW_UP} =>
         (canAllocateToken(slot, op.token) <=>
            (Len(slot.tokens) < slot.capacity.max
               /\ countOf(slot, {PRIORITY, FOLLOW_UP}) < slot.capacity.priorityBuffer))

\* C17 witness: in an over-subscribed slot with a free place, an EMERGENCY
\* token whose buffer is full was turned away
OverSubscribedWitness ==
  /\ decided
  /\ overSubscribed(slot)
  /\ op.token.source = EMERGENCY
  /\ Len(slot.tokens) < slot.capacity.max
  /\ slot.capacity.emergencyBuffer >= 1
  /\ countOf(slot, {EMERGENCY}) = slot.capacity.emergencyBuffer
  /\ result.status \in {"WAITLISTED", "REJECTED"}

(***************************************************************************)
(* Properties of the mutator                                               *)
(***************************************************************************)
\* C3 (as claimed): after any sequence of apply (of any decision), cancel and
\* noShow from a slot without duplicates, the identifiers across occupants
\* and waitlist together contain no duplicates
NoDuplicationInvariant == noDuplicateIds(slot.tokens \o slot.waitlist)

\* the step applies the decision allocateTokenToSlot returns for the slot and
\* a token whose identifier is not in it
appliesOwnDecision ==
  /\ op'.kind = "apply"
  /\ \E token \in AppliedToken :
       ~inSlot(slot, token.id) /\ result' = allocateTokenToSlot(slot, token)

\* C3 (amended): from a slot without duplicate identifiers, each apply of the
\* decision that decide returns for the slot and a token whose identifier is
\* not in it, and each cancel or noShow, leaves the identifiers across
\* occupants and waitlist without duplicates
NoDuplicationStep ==
  [][(noDuplicateIds(slot.tokens \o slot.waitlist)
        /\ (appliesOwnDecision \/ op'.kind \in {"cancel", "noShow"}))
       => noDuplicateIds(slot'.tokens \o slot'.waitlist)]_vars

\* C3 witness: a displacement out of a full slot was applied, the new token
\* now last of occupants and the displaced token last on the waitlist
NoDuplicationWitness ==
  /\ op.kind = "apply"
  /\ result.status = "DISPLACED"
  /\ Len(slot.tokens) = slot.capacity.max
  /\ Len(slot.waitlist) >= 1
  /\ slot.tokens[Len(slot.tokens)] = result.allocatedToken
  /\ slot.waitlist[Len(slot.waitlist)] = result.displacedToken
  /\ result.displacedToken.id \notin idsOf(slot.tokens)
  /\ result.displacedToken.priority < result.allocatedToken.priority
  /\ noDuplicateIds(slot.tokens \o slot.waitlist)

without(seq, k) == SubSeq(seq, 1, k - 1) \o SubSeq(seq, k + 1, Len(seq))

\* C6 (step): a cancel or noShow that removes an occupant while the waitlist
\* is not empty moves exactly one waitlisted token to the end of occupants:
\* one of maximum priority, the nearest to the front among those; the other
\* waitlist entries stay, in order
PromotionStep ==
  (op'.kind \in {"cancel", "noShow"} /\ op'.id \in idsOf(slot.tokens) /\ slot.waitlist # <<>>) =>
    \E i \in 1..Len(slot.tokens) :
      \E k \in 1..Len(slot.waitlist) :
        /\ slot.tokens[i].id = op'.id
        /\ \A j \in 1..(i - 1) : slot.tokens[j].id # op'.id
        /\ \A j \in 1..Len(slot.waitlist) : slot.waitlist[j].priority <= slot.waitlist[k].priority
        /\ \A j \in 1..(k - 1) : slot.waitlist[j].priority < slot.waitlist[k].priority
        /\ slot'.tokens = Append(without(slot.tokens, i), slot.waitlist[k])
        /\ slot'.waitlist = without(slot.waitlist, k)

\* C6: promotion correctness of cancel and noShow
PromotionCorrectness == [][PromotionStep]_vars

\* C6 witness: occupant 1 of two was cancelled with waitlist 3, 4, 5; token 4
\* was promoted ahead of token 5 of equal priority and of the lower token 3
PromotionWitness ==
  /\ isRemoval
  /\ op.id = 1
  /\ Len(slot.tokens) = 2
  /\ Len(slot.waitlist) = 2
  /\ slot.tokens[1].id = 2
  /\ slot.tokens[2].id = 4
  /\ slot.waitlist[1].id = 3
  /\ slot.waitlist[2].id = 5
  /\ slot.waitlist[1].priority < slot.tokens[2].priority
  /\ slot.waitlist[2].priority = slot.tokens[2].priority

applying == op'.kind = "apply"

\* C19 (step): ALLOCATED appends the token at the end of occupants and leaves
\* the waitlist; WAITLISTED appends the token at the end of the waitlist and
\* leaves occupants; REJECTED leaves both
ApplyNonDisplacingStep ==
  applying =>
    /\ (result'.status = "ALLOCATED" /\ result'.allocatedToken # NoToken) =>
         /\ slot'.tokens = Append(slot.tokens, result'.allocatedToken)
         /\ slot'.waitlist = slot.waitlist
    /\ (result'.status = "WAITLISTED" /\ result'.allocatedToken # NoToken) =>
         /\ slot'.waitlist = Append(slot.waitlist, result'.allocatedToken)
         /\ slot'.tokens = slot.tokens
    /\ result'.status = "REJECTED" =>
         /\ slot'.tokens = slot.tokens
         /\ slot'.waitlist = slot.waitlist

\* C19: apply of a non-displacing decision
ApplyNonDisplacing == [][ApplyNonDisplacingStep]_vars

\* C19 witness: a WAITLISTED decision was applied to a slot of three
\* occupants and two waiting; its token is now third and last on the waitlist
ApplyNonDisplacingWitness ==
  /\ op.kind = "apply"
  /\ result.status = "WAITLISTED"
  /\ Len(slot.tokens) = 3
  /\ Len(slot.waitlist) = 3
  /\ slot.waitlist[3] = result.allocatedToken
  /\ slot.waitlist[1].id = 4
  /\ slot.waitlist[2].id = 5

\* C20 (step): DISPLACED whose displaced token is an occupant removes that
\* occupant, appends the new token at the end of occupants and the displaced
\* token at the end of the waitlist; the occupant count is unchanged, the
\* waitlist grows by one, all other entries keep their order
ApplyDisplacingStep ==
  (applying /\ result'.status = "DISPLACED" /\ result'.allocatedToken # NoToken
     /\ result'.displacedToken \in occupants) =>
    \E i \in 1..Len(slot.tokens) :
      /\ slot.tokens[i] = result'.displacedToken
      /\ slot'.tokens = Append(without(slot.tokens, i), result'.allocatedToken)
      /\ slot'.waitlist = Append(slot.waitlist, result'.displacedToken)
      /\ Len(slot'.tokens) = Len(slot.tokens)
      /\ Len(slot'.waitlist) = Len(slot.waitlist) + 1
      /\ result'.displacedToken.id \notin idsOf(SubSeq(slot'.tokens, 1, Len(slot.tokens) - 1))

\* C20: apply of a displacing decision
ApplyDisplacing == [][ApplyDisplacingStep]_vars

\* C20 witness: the second of three occupants was displaced: occupants 1 and
\* 3 close up in order, the new token is last, and the displaced token is
\* last on the waitlist behind the two that waited
ApplyDisplacingWitness ==
  /\ op.kind = "apply"
  /\ result.status = "DISPLACED"
  /\ Len(slot.tokens) = 3
  /\ slot.tokens[1].id = 1
  /\ slot.tokens[2].id = 3
  /\ slot.tokens[3] = result.allocatedToken
  /\ result.allocatedToken.id = 6
  /\ result.displacedToken.id = 2
  /\ Len(slot.waitlist) = 3
  /\ slot.waitlist[1].id = 4
  /\ slot.waitlist[2].id = 5
  /\ slot.waitlist[3] = result.displacedToken

\* C21 (step): DISPLACED whose displaced token's identifier is not among
\* occupants removes nothing, and still appends the new token to occupants
\* and the displaced token to the end of the waitlist
DefensiveDisplacementStep ==
  (applying /\ result'.status = "DISPLACED" /\ result'.allocatedToken # NoToken
     /\ result'.displacedToken # NoToken
     /\ result'.displacedToken.id \notin idsOf(slot.tokens)) =>
    /\ slot'.tokens = Append(slot.tokens, result'.allocatedToken)
    /\ slot'.waitlist = Append(slot.waitlist, result'.displacedToken)

\* C21: defensive displacement
DefensiveDisplacement == [][DefensiveDisplacementStep]_vars

\* C21 witness: a displacement of token 6, which the slot does not hold, was
\* applied: the three occupants are all still there, the new token is fourth,
\* and token 6 is last on the waitlist
DefensiveDisplacementWitness ==
  /\ op.kind = "apply"
  /\ result.status = "DISPLACED"
  /\ result.displacedToken.id = 6
  /\ Len(slot.tokens) = 4
  /\ slot.tokens[1].id = 1
  /\ slot.tokens[2].id = 2
  /\ slot.tokens[3].id = 3
  /\ slot.tokens[4] = result.allocatedToken
  /\ Len(slot.waitlist) = 3
  /\ slot.waitlist[3] = result.displacedToken

\* C22 (step): cancel (and noShow) of an identifier that is not among the
\* occupants changes neither occupants nor waitlist and promotes nothing,
\* also when the identifier is on the waitlist
CancelAbsentStep ==
  (op'.kind \in {"cancel", "noShow"} /\ op'.id \notin idsOf(slot.tokens)) =>
    /\ slot'.tokens = slot.tokens
    /\ slot'.waitlist = slot.waitlist

\* C22: cancel of a non-occupant is a no-op
CancelAbsentIsNoOp == [][CancelAbsentStep]_vars

\* C22 witness: the cancel named token 4, the highest-priority token of a
\* waitlist of three, beside two occupants; it is still second on the waitlist
CancelAbsentWitness ==
  /\ op.kind = "cancel"
  /\ op.id = 4
  /\ Len(slot.tokens) = 2
  /\ Len(slot.waitlist) = 3
  /\ slot.waitlist[2].id = 4
  /\ slot.waitlist[2].priority > slot.waitlist[1].priority
  /\ slot.waitlist[2].priority > slot.waitlist[3].priority

\* C23 (step): a noShow call leaves the occupants and the waitlist that
\* cancel leaves for the same slot and identifier
NoShowAsCancelStep ==
  op'.kind = "noShow" =>
    /\ slot'.tokens = cancelToken(slot, op'.id).tokens
    /\ slot'.waitlist = cancelToken(slot, op'.id).waitlist

\* C23: for every slot and identifier, noShow and cancel produce the same
\* occupants and waitlist
NoShowAsCancel ==
  /\ [][NoShowAsCancelStep]_vars
  /\ [](\A tokenId \in CallIds : markNoShow(slot, tokenId) = cancelToken(slot, tokenId))

\* C23 witness: a noShow removed occupant 1 of two and promoted token 4, the
\* first of the highest priority on a waitlist of three
NoShowAsCancelWitness ==
  /\ op.kind = "noShow"
  /\ op.id = 1
  /\ Len(slot.tokens) = 2
  /\ slot.tokens[1].id = 2
  /\ slot.tokens[2].id = 4
  /\ Len(slot.waitlist) = 2
  /\ slot.waitlist[1].id = 3
  /\ slot.waitlist[2].id = 5

\* the step applies again the ALLOCATED decision the step before applied
appliesAllocatedAgain ==
  /\ op.kind = "apply"
  /\ op'.kind = "apply"
  /\ result.status = "ALLOCATED"
  /\ result.allocatedToken # NoToken
  /\ result' = result

\* how many occupants carry the identifier
occurrences(s, tokenId) == Cardinality({i \in 1..Len(s.tokens) : s.tokens[i].id = tokenId})

\* C24 (step): applying the same ALLOCATED decision a second time appends
\* the token to occupants once more, so the slot holds its identifier twice
ApplyTwiceStep ==
  appliesAllocatedAgain =>
    /\ slot'.tokens = Append(slot.tokens, result.allocatedToken)
    /\ slot'.waitlist = slot.waitlist
    /\ occurrences(slot', result.allocatedToken.id) = occurrences(slot, result.allocatedToken.id) + 1
    /\ occurrences(slot', result.allocatedToken.id) >= 2
    /\ ~noDuplicateIds(slot'.tokens)

\* after an ALLOCATED decision was applied, a second apply of it would append
\* its token again
SecondApplyAppends ==
  (op.kind = "apply" /\ result.status = "ALLOCATED" /\ result.allocatedToken # NoToken) =>
    LET again == applyAllocationResult(slot, result)
    IN /\ again.tokens = Append(slot.tokens, result.allocatedToken)
       /\ ~noDuplicateIds(again.tokens)

\* C24: apply is not idempotent: the same ALLOCATED decision applied twice
\* appends the token twice and leaves a duplicate identifier among the occupants
ApplyNotIdempotent ==
  /\ [][ApplyTwiceStep]_vars
  /\ []SecondApplyAppends

\* C24 witness: an ALLOCATED decision applied to a slot of max 1 that already
\* held its token: the token is there twice and the occupants exceed max
ApplyNotIdempotentWitness ==
  /\ op.kind = "apply"
  /\ result.status = "ALLOCATED"
  /\ slot.capacity.max = 1
  /\ slot.tokens = <<result.allocatedToken, result.allocatedToken>>
  /\ slot.waitlist = <<>>

\* the decision lacks a token its kind needs
lacksToken(r) ==
  \/ r.status \in {"ALLOCATED", "WAITLISTED"} /\ r.allocatedToken = NoToken
  \/ r.status = "DISPLACED" /\ (r.allocatedToken = NoToken \/ r.displacedToken = NoToken)

unchangedSlot == slot'.tokens = slot.tokens /\ slot'.waitlist = slot.waitlist

\* C26 (step): a decision that lacks a token its kind needs leaves occupants
\* and waitlist unchanged; any other decision is applied with all the
\* mutations of its kind (DISPLACED: removal, append to occupants and append
\* to the waitlist together)
NoPartialApplicationStep ==
  applying =>
    /\ lacksToken(result') => unchangedSlot
    /\ (~lacksToken(result') /\ result'.status = "ALLOCATED") =>
         (slot'.tokens = Append(slot.tokens, result'.allocatedToken) /\ slot'.waitlist = slot.waitlist)
    /\ (~lacksToken(result') /\ result'.status = "WAITLISTED") =>
         (slot'.waitlist = Append(slot.waitlist, result'.allocatedToken) /\ slot'.tokens = slot.tokens)
    /\ (~lacksToken(result') /\ result'.status = "DISPLACED") =>
         /\ slot'.tokens = Append(removeTokenById(slot.tokens, result'.displacedToken.id),
                                  result'.allocatedToken)
         /\ slot'.waitlist = Append(slot.waitlist, result'.displacedToken)
    /\ result'.status = "REJECTED" => unchangedSlot

\* C26: no partial application
NoPartialApplication == [][NoPartialApplicationStep]_vars

\* C26 witness: a DISPLACED decision that names occupant 2 as displaced but
\* carries no new token was applied: occupant 2 is still in place and the
\* waitlist is as it was
NoPartialApplicationWitness ==
  /\ op.kind = "apply"
  /\ result.status = "DISPLACED"
  /\ result.allocatedToken = NoToken
  /\ Len(slot.tokens) = 3
  /\ slot.tokens[2] = result.displacedToken
  /\ Len(slot.waitlist) = 2
  /\ slot.waitlist[2].id = 5

(***************************************************************************)
(* Where the decision engine turns a token away (SpecDecide)               *)
(***************************************************************************)
notAllocated == decided /\ result.status \in {"DISPLACED", "WAITLISTED", "REJECTED"}

classExhausted(s, token) ==
  /\ countOf(s, {ONLINE, WALK_IN}) >= s.capacity.max - s.capacity.emergencyBuffer - s.capacity.priorityBuffer
  /\ token.source = EMERGENCY => countOf(s, {EMERGENCY}) >= s.capacity.emergencyBuffer
  /\ token.source \in {PRIORITY, FOLLOW_UP} => countOf(s, {PRIORITY, FOLLOW_UP}) >= s.capacity.priorityBuffer

CancelledIsGone ==
  (isRemoval /\ result.status = HTTP_OK) => ~inSlot(slot, op.id)

\* C28 (as claimed): whenever the cancel or no-show handler answers with
\* success for a token id, that id is afterwards in neither the occupants nor
\* the waitlist, and if it was an occupant the highest-priority waitlisted
\* token was promoted
EndpointCancelsToken ==
  /\ []CancelledIsGone
  /\ [][PromotionStep]_vars

\* the slot invariants: occupants within max, no identifier twice
slotInvariants(s) ==
  /\ Len(s.tokens) <= s.capacity.max
  /\ noDuplicateIds(s.tokens \o s.waitlist)

last(seq) == seq[Len(seq)]

\* a create-token request decides on the slot as it is and the reported
\* status matches the placement
AdmitPlacementStep ==
  op'.kind = "admit" =>
    /\ result' = allocateTokenToSlot(slot, op'.token)
    /\ result'.status \in {"ALLOCATED", "DISPLACED"} =>
         (slot'.tokens # <<>> /\ last(slot'.tokens) = op'.token)
    /\ result'.status = "DISPLACED" =>
         /\ slot'.waitlist = Append(slot.waitlist, result'.displacedToken)
         /\ Len(slot'.tokens) = Len(slot.tokens)
    /\ result'.status = "ALLOCATED" =>
         (slot'.tokens = Append(slot.tokens, op'.token) /\ slot'.waitlist = slot.waitlist)
    /\ result'.status = "WAITLISTED" =>
         (slot'.waitlist = Append(slot.waitlist, op'.token) /\ slot'.tokens = slot.tokens)
    /\ result'.status = "REJECTED" => unchangedSlot

\* C29: over any sequence of create, cancel and no-show requests with token
\* ids fresh in the slot, the slot keeps occupants <= max and no duplicate
\* identifiers, and each create request's reported status matches the
\* placement: ALLOCATED or DISPLACED, the new token is the last occupant;
\* WAITLISTED, it is the last waitlist entry; REJECTED, the slot is unchanged
HandlerAtomicity ==
  /\ []slotInvariants(slot)
  /\ [][AdmitPlacementStep]_vars

\* C29 witness: a create request displaced the first occupant of a full slot
\* of two: the other occupant moved up, the new token is last, and the
\* displaced token waits
HandlerAtomicityWitness ==
  /\ isAdmission
  /\ result.status = "DISPLACED"
  /\ slot.capacity.max = 2
  /\ Len(slot.tokens) = 2
  /\ last(slot.tokens) = op.token
  /\ isEligible(slot.tokens[1])
  /\ slot.tokens[1].priority = result.displacedToken.priority
  /\ slot.waitlist = <<result.displacedToken>>

elementsOf(seq) == {seq[i] : i \in 1..Len(seq)}

\* C30 (step): a token of priority below MEDIUM is not waitlisted by its own
\* admission, and a token of priority below MEDIUM that a step puts on the
\* waitlist was an occupant before the step and is the token the step's
\* admission displaced
WaitlistEntryStep ==
  /\ (op'.kind = "admit" /\ op'.token.priority < MEDIUM) =>
       (result'.status # "WAITLISTED" /\ op'.token \notin elementsOf(slot'.waitlist))
  /\ \A t \in elementsOf(slot'.waitlist) \ elementsOf(slot.waitlist) :
       t.priority < MEDIUM =>
         /\ op'.kind = "admit"
         /\ result'.status = "DISPLACED"
         /\ result'.displacedToken = t
         /\ t \in elementsOf(slot.tokens)

\* C30: waitlist entry by threshold or by displacement only
WaitlistEntry == [][WaitlistEntryStep]_vars

\* C30 witness: a token of priority LOW waits, displaced by the last admission
WaitlistEntryWitness ==
  /\ isAdmission
  /\ result.status = "DISPLACED"
  /\ result.displacedToken.priority = LOW
  /\ slot.waitlist # <<>>
  /\ last(slot.waitlist) = result.displacedToken
  /\ Len(slot.waitlist) >= 2

(***************************************************************************)
(* Properties of the unserialized caller (SpecRace)                        *)
(***************************************************************************)
\* the decision applied is the one decide returns for the slot as it is now
\* and for a token whose identifier is not in it
appliesFreshDecision ==
  /\ op'.kind = "apply"
  /\ ~inSlot(slot, op'.token.id)
  /\ result' = allocateTokenToSlot(slot, op'.token)

\* applying a decision right after it was taken, and cancel and noShow,
\* keep the slot invariants
SerializedStepsKeepInvariants ==
  (slotInvariants(slot) /\ (appliesFreshDecision \/ op'.kind \in {"cancel", "noShow"}))
    => slotInvariants(slot')

\* C25: the slot invariants (occupants <= max, no duplicate identifier) can
\* be broken only by applying a decision that was taken on an earlier state
\* of the slot; no step that applies a decision to the slot it was taken on
\* breaks them.  That two decisions taken on the same state do break them is
\* the witness below
UnserializedHazard == [][SerializedStepsKeepInvariants]_vars

\* C25 witness: two decisions taken on the same full slot of one, both
\* displacing its occupant, were applied: two occupants exceed max = 1 and
\* the displaced token is on the waitlist twice
UnserializedHazardWitness ==
  /\ op.kind = "apply"
  /\ pending = NoPending
  /\ result.status = "DISPLACED"
  /\ slot.capacity.max = 1
  /\ Len(slot.tokens) = 2
  /\ noDuplicateIds(slot.tokens)
  /\ last(slot.tokens) = op.token
  /\ slot.waitlist = <<result.displacedToken, result.displacedToken>>

(***************************************************************************)
(* Draining a slot: from a slot with any occupants and any waitlist, no    *)
(* token is admitted any more and cancel / noShow calls keep coming, each  *)
(* naming a current occupant, for as long as there is one.                 *)
(***************************************************************************)
NextDrain ==
  \/ \E tokenId \in idsOf(slot.tokens) : Cancel(tokenId)
  \/ \E tokenId \in idsOf(slot.tokens) : NoShow(tokenId)

SpecDrain == InitCancel /\ [][NextDrain]_vars /\ WF_vars(NextDrain)

(***************************************************************************)
(* Occupancy arithmetic of cancel and noShow                               *)
(***************************************************************************)
front(seq) == SubSeq(seq, 1, Len(seq) - 1)

\* the promoted token is one the capacity evaluator refuses for the slot as
\* it was just after the removal
promotedPastEvaluator ==
  /\ slot.tokens # <<>>
  /\ last(slot.tokens).id > Len(slot.tokens)
  /\ ~canAllocateToken([slot EXCEPT !.tokens = front(slot.tokens)], last(slot.tokens))

\* C31 (step): a cancel or noShow that names a current occupant leaves the
\* number of occupants unchanged and shortens the waitlist by exactly one
\* when the waitlist was not empty, and removes one occupant when it was
\* empty; this holds whatever canAllocateToken says about the promoted token
CancelArithmeticStep ==
  (op'.kind \in {"cancel", "noShow"} /\ op'.id \in idsOf(slot.tokens)) =>
    IF slot.waitlist # <<>>
    THEN /\ Len(slot'.tokens) = Len(slot.tokens)
         /\ Len(slot'.waitlist) = Len(slot.waitlist) - 1
         /\ \E k \in 1..Len(slot.waitlist) : last(slot'.tokens) = slot.waitlist[k]
    ELSE /\ Len(slot'.tokens) = Len(slot.tokens) - 1
         /\ slot'.waitlist = <<>>

\* C31: occupancy arithmetic of cancel and noShow
CancelArithmetic == [][CancelArithmeticStep]_vars

\* C31 witness: an occupant was cancelled and a waitlisted token took its
\* place although canAllocateToken refuses that token for the slot
CancelArithmeticWitness ==
  /\ isRemoval
  /\ op.id \notin idsOf(slot.tokens)
  /\ op.id <= Len(slot.tokens)
  /\ promotedPastEvaluator

(***************************************************************************)
(* Token conservation                                                      *)
(***************************************************************************)
\* the tokens held by a slot, as occupants or waiting
contents(s) == elementsOf(s.tokens) \cup elementsOf(s.waitlist)

\* C32 (step): an admission adds its incoming token to the tokens held by
\* the slot unless it is REJECTED, and changes nothing else; a cancel or
\* noShow takes away the named token when it is an occupant and nothing
\* otherwise; so displacement and promotion only move tokens between
\* occupants and waitlist
TokenConservationStep ==
  /\ op'.kind = "admit" =>
       contents(slot') = IF result'.status = "REJECTED"
                         THEN contents(slot)
                         ELSE contents(slot) \cup {op'.token}
  /\ op'.kind \in {"cancel", "noShow"} =>
       contents(slot') = IF op'.id \in idsOf(slot.tokens)
                         THEN {t \in contents(slot) : t.id # op'.id}
                         ELSE contents(slot)
  /\ Len(slot'.tokens) + Len(slot'.waitlist) = Cardinality(contents(slot'))

\* C32: token conservation over serialized admissions, cancels and noShows
TokenConservation == [][TokenConservationStep]_vars

\* C32 witness: after a displacement put a token on the waitlist, a cancel
\* of another occupant brought it back; all three tokens but the cancelled
\* one are still held
TokenConservationWitness ==
  /\ isRemoval
  /\ op.id \notin idsOf(slot.tokens) \cup idsOf(slot.waitlist)
  /\ Len(slot.tokens) = 2
  /\ slot.waitlist = <<>>
  /\ slot.capacity.max = 2
  /\ slot.tokens[2].priority < slot.tokens[1].priority
  /\ isEligible(slot.tokens[2])

(***************************************************************************)
(* Stable ordering                                                         *)
(***************************************************************************)
\* the entries of before that are still in after are the first entries of
\* after, in the order they had: entries were removed in place and new ones
\* appended at the end
keptInOrder(before, after) ==
  LET kept == SelectSeq(before, LAMBDA t : t \in elementsOf(after))
  IN /\ Len(kept) <= Len(after)
     /\ SubSeq(after, 1, Len(kept)) = kept

\* the waitlist entry promoted by this step is not preceded on the waitlist
\* by an entry of the same priority
promotesFirstOfEqual ==
  (op'.kind \in {"cancel", "noShow"} /\ op'.id \in idsOf(slot.tokens) /\ slot.waitlist # <<>>) =>
    \E k \in 1..Len(slot.waitlist) :
      /\ last(slot'.tokens) = slot.waitlist[k]
      /\ \A j \in 1..(k - 1) : slot.waitlist[j].priority # slot.waitlist[k].priority

\* C33 (step): no operation reorders the entries of occupants or waitlist
\* that it keeps, and what it adds goes to the end; so the waitlist is in
\* order of entry, and a promotion takes, among the waitlisted tokens of
\* its priority, the one that entered first
StableOrderingStep ==
  /\ keptInOrder(slot.tokens, slot'.tokens)
  /\ keptInOrder(slot.waitlist, slot'.waitlist)
  /\ promotesFirstOfEqual

DrainStep ==
  (op'.kind \in {"cancel", "noShow"} /\ op'.id \in idsOf(slot.tokens)) =>
    /\ slot.waitlist # <<>> =>
         /\ Len(slot'.waitlist) = Len(slot.waitlist) - 1
         /\ \E k \in 1..Len(slot.waitlist) : last(slot'.tokens) = slot.waitlist[k]
         /\ \A j \in 1..Len(slot'.waitlist) :
              slot'.waitlist[j].priority <= last(slot'.tokens).priority
         /\ isRemoval => last(slot'.tokens).priority <= last(slot.tokens).priority
    /\ slot.waitlist = <<>> =>
         /\ slot'.waitlist = <<>>
         /\ Len(slot'.tokens) = Len(slot.tokens) - 1

\* C34 as stated: from any state the cancels empty the waitlist, one
\* promotion per cancel in non-increasing priority order, and then the
\* occupants
WaitlistDrain ==
  /\ <>(slot.waitlist = <<>>)
  /\ <>(slot.tokens = <<>>)
  /\ [][DrainStep]_vars

\* C34, amended: the same from any state that has an occupant or an empty
\* waitlist; with no occupant no cancel can promote anything
WaitlistDrainFromOccupied ==
  /\ (slot.tokens # <<>> \/ slot.waitlist = <<>>) =>
       /\ <>(slot.waitlist = <<>>)
       /\ <>[](slot.tokens = <<>> /\ slot.waitlist = <<>>)
  /\ [](slot.tokens = <<>> => [](slot.tokens = <<>>))
  /\ [][DrainStep]_vars

\* C34 witness: the slot is empty and the last token cancelled had started
\* on the waitlist
WaitlistDrainWitness ==
  /\ isRemoval
  /\ op.id > MaxCapacity
  /\ slot.tokens = <<>>
  /\ slot.waitlist = <<>>

(***************************************************************************)
(* Displace-then-cancel round trip                                         *)
(***************************************************************************)
\* r is an entry of seq of maximum priority, the first of those
firstOfHighest(seq, r) ==
  \E k \in 1..Len(seq) :
    /\ seq[k] = r
    /\ \A j \in 1..Len(seq) : seq[j].priority <= r.priority
    /\ \A j \in 1..(k - 1) : seq[j].priority < r.priority

\* the slot s after Displaced{new, old} is applied and new is cancelled
roundTrip(s, new, old) ==
  cancelToken(applyAllocationResult(s, AllocationResult("DISPLACED", new, old)), new.id)

\* the law on the slot of the current state, for every occupant as old and
\* every token new to the slot
RoundTripLaw ==
  \A i \in 1..Len(slot.tokens) :
    \A new \in FreshToken(slot) :
      LET old == slot.tokens[i]
          after == roundTrip(slot, new, old)
      IN /\ after.tokens # <<>>
         /\ front(after.tokens) = without(slot.tokens, i)
         /\ Len(after.waitlist) = Len(slot.waitlist)
         /\ IF slot.waitlist = <<>>
            THEN /\ last(after.tokens) = old
                 /\ idsOf(after.tokens) = idsOf(slot.tokens)
                 /\ after.waitlist = <<>>
            ELSE /\ firstOfHighest(Append(slot.waitlist, old), last(after.tokens))
                 /\ contents(after) = contents(slot)

\* the cancel of the token a displacement has just let in gives its place
\* to the displaced token when nothing else waits, and else to the first
\* token of highest priority on the waitlist, the displaced one at its end
RoundTripStep ==
  (result.status = "DISPLACED" /\ op'.kind \in {"cancel", "noShow"}
     /\ op'.id = result.allocatedToken.id) =>
    /\ front(slot'.tokens) = front(slot.tokens)
    /\ IF Len(slot.waitlist) = 1
       THEN last(slot'.tokens) = result.displacedToken /\ slot'.waitlist = <<>>
       ELSE /\ firstOfHighest(slot.waitlist, last(slot'.tokens))
            /\ Len(slot'.waitlist) = Len(slot.waitlist) - 1

\* C35: applying Displaced{new, old} and then cancelling new restores the
\* occupant identifiers of a slot whose waitlist was empty, with old at
\* the end of occupants and the waitlist empty again; when other tokens
\* wait, the place goes to the highest-priority waitlisted token, old
\* included
DisplaceCancelRoundTrip == []RoundTripLaw /\ [][RoundTripStep]_vars

\* C35 witness: occupants 1, 2, 3 with nothing waiting; 1 was displaced by
\* token 4, token 4 was cancelled, and 1 is back, at the end
DisplaceCancelRoundTripWitness ==
  /\ isRemoval
  /\ op.id = 4
  /\ Len(slot.tokens) = 3
  /\ slot.tokens[1].id = 2
  /\ slot.tokens[2].id = 3
  /\ slot.tokens[3].id = 1
  /\ slot.waitlist = <<>>

(***************************************************************************)
(* A cancelled token stays gone                                            *)
(***************************************************************************)
\* the identifiers held by a slot, as occupants or waiting
heldIds(s) == idsOf(s.tokens) \cup idsOf(s.waitlist)

\* C36 (step): an identifier the slot did not hold enters it only as the
\* incoming token of the decision being applied; a token that left by
\* cancel or noShow is held by the slot again only when it is submitted
\* anew, also when the cancel fell between the decision that chose it as
\* displacement target and the apply of that decision
CancelledStaysGoneStep ==
  \A id \in heldIds(slot') \ heldIds(slot) :
    op'.kind = "apply" /\ op'.id = id

\* C36: a cancelled token stays gone
CancelledStaysGone == [][CancelledStaysGoneStep]_vars
====
